---------------------------- MODULE Spec2Model ----------------------------
(***************************************************************************)
(* A model of the tracking-result pipeline of Analisis_Basketball:         *)
(*   utils/stubs_utils.py          save_stub, read_stub (the pickle cache) *)
(*   trackers/player_tracker.py    PlayerTracker.get_object_tracks         *)
(*   trackers/ball_tracker.py      BallTracker.get_object_tracks,          *)
(*                                 remove_wrong_detections,                *)
(*                                 interpolate_ball_positions              *)
(*   team_assigner/team_assigner.py  get_player_team,                      *)
(*                                 get_player_teams_across_frames          *)
(*                                                                         *)
(* Python values are modelled as follows.  A dict is a function (the empty *)
(* dict is << >>), a list is a sequence, {"bbox": b} is the record         *)
(* [bbox |-> b], a box is a 4-tuple.  A frame is modelled by what is       *)
(* visible in it: the list of objects the detector scores on it.           *)
(* Confidences are in hundredths (0.5 is 50).                              *)
(***************************************************************************)
EXTENDS Integers, Sequences, FiniteSets, TLC

VARIABLES
    \* ---- the cache store (the file system seen by stubs_utils.py)
    dirs,            \* the directories that exist
    files,           \* path -> pickled bytes, for the files that exist
    \* ---- one call of get_object_tracks
    pc,              \* position of the call
    kind,            \* "player" (PlayerTracker) or "ball" (BallTracker)
    frames,          \* argument frames
    read_from_stub,  \* argument read_from_stub
    stub_path,       \* argument stub_path
    detections,      \* local detections (detect_frames' accumulator, then its result)
    tracks,          \* local tracks
    ret,             \* the value returned to the caller
    exc,             \* the exception that left the call, "none" if none
    \* ---- observers of a call (history, not program state)
    files0,          \* the store when the call began
    predict_calls,   \* calls of model.predict in this call
    tracker_calls,   \* calls of tracker.update_with_detections in this call
    cache_writes,    \* completed pickle.dump in this call
    cache_reads,     \* calls of read_stub in this call
    save_calls,      \* calls of save_stub in this call
    predict_log,     \* the batches handed to model.predict in this call, in order
    tracker_log,     \* what each tracker call of this call received and answered
    \* ---- direct calls of save_stub / read_stub
    last_saved,      \* path -> the object most recently handed to save_stub
    loaded,          \* the outcome of the latest read_stub(True, path) call
    \* ---- one call of remove_wrong_detections or interpolate_ball_positions
    rpc,                    \* position of the call
    ball_positions,         \* argument ball_positions (remove_wrong_detections
                            \* changes it in place), then the value returned
    i,                      \* loop variable of remove_wrong_detections
    last_good_frame_index,  \* local of remove_wrong_detections
    df_ball_positions,      \* local of interpolate_ball_positions
    positions0,             \* ball_positions as handed in (history)
    applied,                \* calls made in a row on this sequence (history)
    \* ---- the TeamAssigner and one call of get_player_teams_across_frames
    tpc,                 \* position of the call
    player_team_dict,    \* self.player_team_dict
    video_frames,        \* argument video_frames: how many frames it has
    player_tracks,       \* argument player_tracks
    team_read_from_stub, \* argument read_from_stub
    team_stub_path,      \* argument stub_path
    frame_num,           \* the frames the loop has been through
    player_assignment,   \* local player_assignment
    team_ret,            \* the value returned to the caller
    team_exc,            \* the exception that left the call, "none" if none
    classifier_calls,    \* identity -> frames in which get_player_color was asked
                         \* (history)
    team_files0,         \* the store when the call began (history)
    team_query,          \* the latest direct call of get_player_team (history)
    team_cache_reads,    \* calls of read_stub in this call (history)
    team_save_calls,     \* calls of save_stub in this call (history)
    team_cache_writes    \* completed pickle.dump in this call (history)

passVars == <<pc, kind, frames, read_from_stub, stub_path, detections, tracks,
              ret, exc, files0, predict_calls, tracker_calls, cache_writes,
              cache_reads, save_calls, predict_log, tracker_log>>
storeVars == <<dirs, files, last_saved, loaded>>
repairVars == <<rpc, ball_positions, i, last_good_frame_index, df_ball_positions,
                positions0, applied>>
teamVars == <<tpc, player_team_dict, video_frames, player_tracks,
              team_read_from_stub, team_stub_path, frame_num, player_assignment,
              team_ret, team_exc, classifier_calls, team_files0, team_query,
              team_cache_reads, team_save_calls,
              team_cache_writes>>

-----------------------------------------------------------------------------
(* Bounds of the model *)

\* longest frame list handed to get_object_tracks in Spec
MaxFrames == 2
\* longest ball sequence handed to remove_wrong_detections and
\* interpolate_ball_positions (beside the three long sequences of JumpExample)
MaxLen == 5
\* most objects visible in one frame of the ball-selection model
MaxObjs == 2
\* longest frame list of the ball-selection model
MaxBallFrames == 1
\* longest player_tracks handed to get_player_teams_across_frames
MaxTeamFrames == 52
\* longest frame list of the batching model
MaxDetectFrames == 41
\* identities asked about in the memo model
MaxMemoIds == 3

-----------------------------------------------------------------------------
(* Values *)

Min(S) == CHOOSE x \in S : \A y \in S : x <= y
Max(S) == CHOOSE x \in S : \A y \in S : x >= y

None == [some |-> FALSE, val |-> << >>]
Some(v) == [some |-> TRUE, val |-> v]

BoxA == <<0, 0, 10, 10>>
BoxB == <<30, 30, 40, 40>>
BoxN == <<15, 20, 25, 30>>
BoxJ == <<1000, 1000, 1010, 1010>>

\* one detection: class name, confidence (hundredths), box
Obj(c, p, b) == [cls |-> c, conf |-> p, bbox |-> b]

\* sequences over S of length at most n
SeqsUpTo(S, n) == UNION {[1..k -> S] : k \in 0..n}

-----------------------------------------------------------------------------
(* pickle: the byte form of a TrackSequence or TeamAssignmentSequence.      *)
(* dump writes the list length, then per frame the number of items and the *)
(* items (key, then the value with a tag: 0 a {"bbox": [..4..]}, 1 a team  *)
(* label); load parses it back and fails on anything else.                 *)

EncVal(v) ==
    IF "bbox" \in DOMAIN v THEN <<0>> \o v.bbox ELSE <<1, v.team>>

RECURSIVE EncItems(_, _)
EncItems(e, ids) ==
    IF ids = {} THEN << >>
    ELSE LET k == Min(ids)
         IN  <<k>> \o EncVal(e[k]) \o EncItems(e, ids \ {k})

EncEntry(e) == <<Cardinality(DOMAIN e)>> \o EncItems(e, DOMAIN e)

RECURSIVE EncFrames(_)
EncFrames(X) ==
    IF X = << >> THEN << >> ELSE EncEntry(Head(X)) \o EncFrames(Tail(X))

PickleDump_Reversed(X) ==
    <<Len(X)>> \o EncFrames([k \in 1..Len(X) |-> X[Len(X) + 1 - k]])

\* pickle.dump(object, f): the length of the list, then its entries in order
PickleDump(X) == <<Len(X)>> \o EncFrames(X)

DecFail == [ok |-> FALSE, val |-> << >>, rest |-> << >>]

DecVal(s) ==
    IF Len(s) >= 5 /\ s[1] = 0
    THEN [ok |-> TRUE, val |-> [bbox |-> SubSeq(s, 2, 5)], rest |-> SubSeq(s, 6, Len(s))]
    ELSE IF Len(s) >= 2 /\ s[1] = 1
    THEN [ok |-> TRUE, val |-> [team |-> s[2]], rest |-> SubSeq(s, 3, Len(s))]
    ELSE DecFail

RECURSIVE DecItems(_, _, _)
DecItems(s, n, acc) ==
    IF n = 0 THEN [ok |-> TRUE, val |-> acc, rest |-> s]
    ELSE IF Len(s) < 1 THEN DecFail
    ELSE LET r == DecVal(Tail(s))
         IN  IF ~r.ok THEN DecFail
             ELSE DecItems(r.rest, n - 1, (s[1] :> r.val) @@ acc)

DecEntry(s) ==
    IF Len(s) < 1 \/ s[1] < 0 THEN DecFail ELSE DecItems(Tail(s), s[1], << >>)

RECURSIVE DecFrames(_, _, _)
DecFrames(s, n, acc) ==
    IF n = 0 THEN [ok |-> TRUE, val |-> acc, rest |-> s]
    ELSE LET r == DecEntry(s)
         IN  IF ~r.ok THEN DecFail
             ELSE DecFrames(r.rest, n - 1, Append(acc, r.val))

\* [ok, val]: ok is FALSE when the bytes are no pickle (UnpicklingError)
PickleLoad(s) ==
    IF Len(s) < 1 \/ s[1] < 0 THEN DecFail
    ELSE LET r == DecFrames(Tail(s), s[1], << >>)
         IN  IF r.ok /\ r.rest = << >> THEN r ELSE DecFail

-----------------------------------------------------------------------------
(* utils/stubs_utils.py *)

NoPath == "None"
DirPath == "stubs/tracks.pkl"
BarePath == "tracks.pkl"
RealPaths == {DirPath, BarePath}

\* os.path.dirname
Dirname(p) == IF p = DirPath THEN "stubs" ELSE ""

\* os.path.exists of a directory name; the empty name never exists
DirExists(ds, d) == d \in ds

\* save_stub(stub_path, object): the store after it, and the exception it raised
save_stub(ds, fs, p, object) ==
    IF p = NoPath
    THEN \* os.path.dirname(None)
         [dirs |-> ds, files |-> fs, exc |-> "TypeError"]
    ELSE IF ~DirExists(ds, Dirname(p)) /\ Dirname(p) = ""
    THEN \* os.makedirs('')
         [dirs |-> ds, files |-> fs, exc |-> "FileNotFoundError"]
    ELSE [dirs  |-> IF Dirname(p) = "" THEN ds ELSE ds \cup {Dirname(p)},
          files |-> (p :> PickleDump(object)) @@ fs,
          exc   |-> "none"]

read_stub_CorruptIsAbsent(fs, rfs, p) ==
    IF rfs /\ p # NoPath /\ p \in DOMAIN fs /\ PickleLoad(fs[p]).ok
    THEN [value |-> Some(PickleLoad(fs[p]).val), exc |-> "none", opened |-> TRUE]
    ELSE [value |-> None, exc |-> "none", opened |-> FALSE]

read_stub_IgnoresSwitch(fs, rfs, p) ==
    IF p # NoPath /\ p \in DOMAIN fs
    THEN LET r == PickleLoad(fs[p])
         IN  IF r.ok THEN [value |-> Some(r.val), exc |-> "none", opened |-> TRUE]
             ELSE [value |-> None, exc |-> "UnpicklingError", opened |-> TRUE]
    ELSE [value |-> None, exc |-> "none", opened |-> FALSE]

\* read_stub(read_from_stub, stub_path): the value returned (None or the
\* object), the exception raised, and whether the file was opened
read_stub(fs, rfs, p) ==
    IF rfs /\ p # NoPath /\ p \in DOMAIN fs
    THEN LET r == PickleLoad(fs[p])
         IN  IF r.ok THEN [value |-> Some(r.val), exc |-> "none", opened |-> TRUE]
             ELSE [value |-> None, exc |-> "UnpicklingError", opened |-> TRUE]
    ELSE [value |-> None, exc |-> "none", opened |-> FALSE]

-----------------------------------------------------------------------------
(* The external capabilities *)

\* conf=0.5 handed to model.predict
CONF_FLOOR == 50
\* batch_size of detect_frames
batch_size == 20

\* model.predict on one frame: the objects scored at or above the floor, in order
PredictFrame(frame) == SelectSeq(frame, LAMBDA o : o.conf >= CONF_FLOOR)

Batch_Short(fr, start) ==
    SubSeq(fr, start + 1, Min({start + batch_size - 1, Len(fr)}))

\* frames[i:i+batch_size], i counted from 0
Batch(fr, start) == SubSeq(fr, start + 1, Min({start + batch_size, Len(fr)}))

\* model.predict(frames[i:i+batch_size], conf=0.5), the batch start counted from 0
Predict(fr, start) ==
    [k \in 1..Len(Batch(fr, start)) |-> PredictFrame(Batch(fr, start)[k])]

\* identities the tracker hands out
TrackIds == {1, 2}

\* tracker.update_with_detections(dets): the tracker keeps its own state and is
\* a black box here; it returns some of the detections, each under an identity
\* of its own within the frame
TrackerOutputs(dets) ==
    {t \in UNION {[S -> TrackIds] : S \in SUBSET (1..Len(dets))} :
        \A a, b \in DOMAIN t : a # b => t[a] # t[b]}

-----------------------------------------------------------------------------
(* trackers/player_tracker.py, trackers/ball_tracker.py: get_object_tracks *)

PlayerEntry_AllClasses(dets, t) ==
    [id \in {t[j] : j \in DOMAIN t} |->
        [bbox |-> dets[CHOOSE j \in DOMAIN t : t[j] = id].bbox]]

\* PlayerTracker: lines 87-103, the entry built from the tracker's answer t
PlayerEntry(dets, t) ==
    LET keep == {j \in DOMAIN t : dets[j].cls = "Player"}
    IN  [id \in {t[j] : j \in keep} |->
            [bbox |-> dets[CHOOSE j \in keep : t[j] = id].bbox]]

RECURSIVE BallScan_LastWins(_, _, _)
BallScan_LastWins(dets, chosen_bbox, max_confidence) ==
    IF dets = << >> THEN chosen_bbox
    ELSE LET d == Head(dets)
         IN  IF d.cls = "Ball" /\ max_confidence <= d.conf
             THEN BallScan_LastWins(Tail(dets), Some(d.bbox), d.conf)
             ELSE BallScan_LastWins(Tail(dets), chosen_bbox, max_confidence)

\* BallTracker: lines 92-106, the loop over one frame's detections; the state
\* of the loop is (chosen_bbox, max_confidence)
RECURSIVE BallScan(_, _, _)
BallScan(dets, chosen_bbox, max_confidence) ==
    IF dets = << >> THEN chosen_bbox
    ELSE LET d == Head(dets)
         IN  IF d.cls = "Ball" /\ max_confidence < d.conf
             THEN BallScan(Tail(dets), Some(d.bbox), d.conf)
             ELSE BallScan(Tail(dets), chosen_bbox, max_confidence)

\* BallTracker: lines 91-110, the entry of one frame
BallEntry(dets) ==
    LET chosen_bbox == BallScan(dets, None, 0)
    IN  IF chosen_bbox.some THEN (1 :> [bbox |-> chosen_bbox.val]) ELSE << >>

\* what a frame list of the cache model shows: nothing, or a ball and a player
ThinFrames == {<< >>, <<Obj("Ball", 90, BoxA), Obj("Player", 90, BoxB)>>}

Paths == RealPaths \cup {NoPath}

CacheValid_Inverted(value, fr) == value.some /\ Len(value.val) # Len(fr)

\* if tracks is not None: if len(tracks) == len(frames): (the cache is used)
CacheValid(value, fr) == value.some /\ Len(value.val) = Len(fr)

Idle == pc \in {"idle", "done", "raised"}

\* a call of get_object_tracks(frames, read_from_stub, stub_path) begins
Enter(k, fr, rfs, p) ==
    /\ pc' = "read"
    /\ kind' = k
    /\ frames' = fr
    /\ read_from_stub' = rfs
    /\ stub_path' = p
    /\ detections' = << >>
    /\ tracks' = << >>
    /\ ret' = None
    /\ exc' = "none"
    /\ files0' = files
    /\ predict_calls' = 0
    /\ tracker_calls' = 0
    /\ cache_writes' = 0
    /\ cache_reads' = 0
    /\ save_calls' = 0
    /\ predict_log' = << >>
    /\ tracker_log' = << >>
    /\ UNCHANGED <<storeVars, repairVars, teamVars>>

Call ==
    /\ Idle
    /\ \E k \in {"player", "ball"}, fr \in SeqsUpTo(ThinFrames, MaxFrames),
          rfs \in BOOLEAN, p \in Paths :
          Enter(k, fr, rfs, p)

\* tracks = read_stub(...); if tracks is not None: if len(tracks) == len(frames): return tracks
ReadCache ==
    /\ pc = "read"
    /\ LET r == read_stub(files, read_from_stub, stub_path)
       IN  IF r.exc # "none"
           THEN /\ pc' = "raised"
                /\ exc' = r.exc
                /\ ret' = ret
           ELSE IF CacheValid(r.value, frames)
           THEN /\ pc' = "done"
                /\ ret' = r.value
                /\ exc' = exc
           ELSE /\ pc' = "detect"
                /\ ret' = ret
                /\ exc' = exc
    /\ cache_reads' = cache_reads + 1
    /\ UNCHANGED <<kind, frames, read_from_stub, stub_path, detections, tracks,
                   files0, predict_calls, tracker_calls, cache_writes,
                   save_calls, predict_log, tracker_log>>
    /\ UNCHANGED <<storeVars, repairVars, teamVars>>

\* detect_frames: one turn of its loop, one call of model.predict
DetectBatch ==
    /\ pc = "detect"
    /\ Len(detections) < Len(frames)
    /\ detections' = detections \o Predict(frames, Len(detections))
    /\ predict_calls' = predict_calls + 1
    /\ predict_log' = Append(predict_log,
                          [batch |-> Batch(frames, Len(detections)),
                           conf |-> CONF_FLOOR])
    /\ UNCHANGED <<pc, kind, frames, read_from_stub, stub_path, tracks, ret, exc,
                   files0, tracker_calls, cache_writes, cache_reads,
                   save_calls, tracker_log>>
    /\ UNCHANGED <<storeVars, repairVars, teamVars>>

DetectReturn_Early ==
    /\ pc = "detect"
    /\ pc' = "track"
    /\ tracks' = << >>
    /\ UNCHANGED <<kind, frames, read_from_stub, stub_path, detections, ret, exc,
                   files0, predict_calls, tracker_calls, cache_writes,
                   cache_reads, save_calls, predict_log, tracker_log>>
    /\ UNCHANGED <<storeVars, repairVars, teamVars>>

\* detect_frames returns; tracks = []
DetectReturn ==
    /\ pc = "detect"
    /\ Len(detections) >= Len(frames)
    /\ pc' = "track"
    /\ tracks' = << >>
    /\ UNCHANGED <<kind, frames, read_from_stub, stub_path, detections, ret, exc,
                   files0, predict_calls, tracker_calls, cache_writes,
                   cache_reads, save_calls, predict_log, tracker_log>>
    /\ UNCHANGED <<storeVars, repairVars, teamVars>>

\* one turn of "for frame_num, detection in enumerate(detections)"
TrackFrame ==
    /\ pc = "track"
    /\ Len(tracks) < Len(detections)
    /\ LET dets == detections[Len(tracks) + 1]
       IN  IF kind = "player"
           THEN /\ \E t \in TrackerOutputs(dets) :
                      /\ tracks' = Append(tracks, PlayerEntry(dets, t))
                      /\ tracker_log' = Append(tracker_log,
                                               [dets |-> dets, out |-> t])
                /\ tracker_calls' = tracker_calls + 1
           ELSE /\ tracks' = Append(tracks, BallEntry(dets))
                /\ tracker_calls' = tracker_calls
                /\ tracker_log' = tracker_log
    /\ UNCHANGED <<pc, kind, frames, read_from_stub, stub_path, detections, ret,
                   exc, files0, predict_calls, cache_writes, cache_reads,
                   save_calls,
                   predict_log>>
    /\ UNCHANGED <<storeVars, repairVars, teamVars>>

\* save_stub(stub_path, tracks); return tracks
SaveCache ==
    /\ pc = "track"
    /\ Len(tracks) >= Len(detections)
    /\ save_calls' = save_calls + 1
    /\ LET s == save_stub(dirs, files, stub_path, tracks)
       IN  /\ dirs' = s.dirs
           /\ files' = s.files
           /\ IF s.exc # "none"
              THEN /\ pc' = "raised"
                   /\ exc' = s.exc
                   /\ ret' = ret
                   /\ cache_writes' = cache_writes
              ELSE /\ pc' = "done"
                   /\ exc' = exc
                   /\ ret' = Some(tracks)
                   /\ cache_writes' = cache_writes + 1
    /\ UNCHANGED <<kind, frames, read_from_stub, stub_path, detections, tracks,
                   files0, predict_calls, tracker_calls, last_saved, loaded,
                   cache_reads, predict_log, tracker_log>>
    /\ UNCHANGED <<repairVars, teamVars>>

-----------------------------------------------------------------------------
(* Direct calls of the cache functions *)

\* objects handed to save_stub directly: track sequences and a team sequence
SaveValues ==
    {<< >>,
     <<(1 :> [bbox |-> BoxB]), << >>>>,
     <<(1 :> [team |-> 1]) @@ (2 :> [team |-> 2])>>}

\* save_stub(p, X)
SaveStubCall ==
    /\ \E p \in Paths, X \in SaveValues :
          LET s == save_stub(dirs, files, p, X)
          IN  /\ dirs' = s.dirs
              /\ files' = s.files
              /\ last_saved' = IF p \in RealPaths
                               THEN [last_saved EXCEPT ![p] = Some(X)]
                               ELSE last_saved
              /\ loaded' = None
    /\ UNCHANGED <<passVars, repairVars, teamVars>>

\* read_stub(rfs, p)
ReadStubCall ==
    /\ \E rfs \in BOOLEAN, p \in Paths :
          loaded' = Some([path |-> p, enabled |-> rfs,
                          result |-> read_stub(files, rfs, p)])
    /\ UNCHANGED <<dirs, files, last_saved>>
    /\ UNCHANGED <<passVars, repairVars, teamVars>>

-----------------------------------------------------------------------------
(* The cache model: calls of get_object_tracks, save_stub and read_stub on a *)
(* store that may already hold records of earlier runs                      *)

\* records an earlier run may have left: k frames, the ball seen in each
OldRecord(k) == [j \in 1..k |-> (1 :> [bbox |-> BoxA])]

\* a file cut off after the list length: pickle.load fails on it
TruncatedRecord == <<1>>

\* what a file of the store may hold when the program starts
OldFiles == {PickleDump(OldRecord(k)) : k \in 0..MaxFrames} \cup {TruncatedRecord}

InitStores ==
    {[dirs |-> ds, files |-> fs] :
        ds \in {{}, {"stubs"}},
        fs \in UNION {[S -> OldFiles] : S \in SUBSET RealPaths}}

StoreInit ==
    /\ \E st \in {x \in InitStores :
                    \A p \in DOMAIN x.files : Dirname(p) = "" \/ Dirname(p) \in x.dirs} :
          /\ dirs = st.dirs
          /\ files = st.files
          /\ files0 = st.files
    /\ last_saved = [p \in RealPaths |-> None]
    /\ loaded = None

\* a store nothing was written to
StoreFresh ==
    /\ dirs = {}
    /\ files = << >>
    /\ files0 = << >>
    /\ last_saved = [p \in RealPaths |-> None]
    /\ loaded = None

\* no call of get_object_tracks has begun
PassIdle ==
    /\ pc = "idle"
    /\ kind = "player"
    /\ frames = << >>
    /\ read_from_stub = FALSE
    /\ stub_path = NoPath
    /\ detections = << >>
    /\ tracks = << >>
    /\ ret = None
    /\ exc = "none"
    /\ predict_calls = 0
    /\ tracker_calls = 0
    /\ cache_writes = 0
    /\ cache_reads = 0
    /\ save_calls = 0
    /\ predict_log = << >>
    /\ tracker_log = << >>

\* no ball sequence is being repaired
RepairIdle ==
    /\ rpc = "idle"
    /\ ball_positions = << >>
    /\ i = 0
    /\ last_good_frame_index = -1
    /\ df_ball_positions = << >>
    /\ positions0 = << >>
    /\ applied = 0

\* a TeamAssigner as constructed, no call begun
TeamIdle ==
    /\ tpc = "idle"
    /\ player_team_dict = << >>
    /\ video_frames = 0
    /\ player_tracks = << >>
    /\ team_read_from_stub = FALSE
    /\ team_stub_path = NoPath
    /\ frame_num = 0
    /\ player_assignment = << >>
    /\ team_ret = None
    /\ team_exc = "none"
    /\ classifier_calls = [id \in TrackIds |-> {}]
    /\ team_files0 = << >>
    /\ team_query = None
    /\ team_cache_reads = 0
    /\ team_save_calls = 0
    /\ team_cache_writes = 0

Init == StoreInit /\ PassIdle /\ RepairIdle /\ TeamIdle

vars == <<dirs, files, pc, kind, frames, read_from_stub, stub_path, detections,
          tracks, ret, exc, files0, predict_calls, tracker_calls, cache_writes,
          last_saved, loaded, rpc, ball_positions, i, last_good_frame_index,
          df_ball_positions, positions0, applied, tpc, player_team_dict, video_frames,
          player_tracks, team_read_from_stub, team_stub_path, frame_num,
          player_assignment, team_ret, team_exc, classifier_calls,
          cache_reads, save_calls, predict_log, tracker_log, team_files0,
          team_query, team_cache_reads,
          team_cache_writes, team_save_calls>>

Next ==
    \/ Call
    \/ ReadCache
    \/ DetectBatch
    \/ DetectReturn
    \/ TrackFrame
    \/ SaveCache

Spec == Init /\ [][Next]_vars

\* the first of two calls of get_object_tracks on a store earlier runs may
\* have written to
FirstCall ==
    /\ pc = "idle"
    /\ \E k \in {"player", "ball"}, fr \in SeqsUpTo(ThinFrames, MaxFrames),
          rfs \in BOOLEAN, p \in Paths :
          Enter(k, fr, rfs, p)

\* the first call recomputed and saved at stub_path; get_object_tracks is
\* called again by the same tracker with as many frames, read_from_stub=True
\* and the same stub_path (last_saved keeps what the first call returned)
SecondCall ==
    /\ pc = "done"
    /\ save_calls = 1
    /\ cache_writes = 1
    /\ \A p \in RealPaths : ~last_saved[p].some
    /\ \E fr \in SeqsUpTo(ThinFrames, MaxFrames) :
          /\ Len(fr) = Len(frames)
          /\ frames' = fr
    /\ last_saved' = [last_saved EXCEPT ![stub_path] = ret]
    /\ pc' = "read"
    /\ read_from_stub' = TRUE
    /\ detections' = << >>
    /\ tracks' = << >>
    /\ ret' = None
    /\ exc' = "none"
    /\ files0' = files
    /\ predict_calls' = 0
    /\ tracker_calls' = 0
    /\ cache_writes' = 0
    /\ cache_reads' = 0
    /\ save_calls' = 0
    /\ predict_log' = << >>
    /\ tracker_log' = << >>
    /\ UNCHANGED <<kind, stub_path, dirs, files, loaded, repairVars, teamVars>>

NextTwoRuns ==
    \/ FirstCall
    \/ ReadCache
    \/ DetectBatch
    \/ DetectReturn
    \/ TrackFrame
    \/ SaveCache
    \/ SecondCall

SpecTwoRuns == Init /\ [][NextTwoRuns]_vars

\* the cache functions alone, called in any order
NextStub ==
    \/ SaveStubCall
    \/ ReadStubCall

SpecStub == Init /\ [][NextStub]_vars

-----------------------------------------------------------------------------
(* Claims about the cache in get_object_tracks (Spec) *)

\* the record the store held at stub_path when the call began
CachedAtEntry == PickleLoad(files0[stub_path])

C1_Hit ==
    /\ pc # "idle"
    /\ read_from_stub
    /\ stub_path \in DOMAIN files0
    /\ CachedAtEntry.ok
    /\ Len(CachedAtEntry.val) = Len(frames)

\* C1: when read_from_stub is true and the record at stub_path has as many
\* entries as there are frames, get_object_tracks (player or ball) returns
\* exactly that record, never calls the detector or the tracker and never
\* writes the cache.
C1_CacheHitReturnsRecord ==
    C1_Hit =>
        /\ pc \in {"read", "done"}
        /\ predict_calls = 0
        /\ tracker_calls = 0
        /\ cache_writes = 0
        /\ files = files0
        /\ (pc = "done" => ret = Some(CachedAtEntry.val))

C1_Witness ==
    /\ C1_Hit
    /\ pc = "done"
    /\ Len(frames) = 2
    /\ ret = Some(CachedAtEntry.val)

C2_Stale ==
    /\ pc # "idle"
    /\ read_from_stub
    /\ stub_path \in DOMAIN files0
    /\ CachedAtEntry.ok
    /\ Len(CachedAtEntry.val) # Len(frames)

\* C2: when the record at stub_path has a length other than the number of
\* frames, the call ends by returning a freshly computed sequence with one
\* entry per frame, not the cached record, and the store then holds that
\* sequence at stub_path.
C2_StaleCacheRecomputedAndReplaced ==
    (C2_Stale /\ pc \in {"done", "raised"}) =>
        /\ pc = "done"
        /\ ret.some
        /\ Len(ret.val) = Len(frames)
        /\ ret.val # CachedAtEntry.val
        /\ stub_path \in DOMAIN files
        /\ files[stub_path] = PickleDump(ret.val)

\* C12: a call of get_object_tracks with stub_path None that recomputes ends
\* by returning the computed sequence, save_stub(None, tracks) having done
\* nothing: no exception, the store unchanged.
C12_UnsetPathSaveIsNoOp ==
    (pc \in {"done", "raised"} /\ stub_path = NoPath) =>
        /\ pc = "done"
        /\ exc = "none"
        /\ ret.some
        /\ Len(ret.val) = Len(frames)
        /\ files = files0

-----------------------------------------------------------------------------
(* Claims about the ball selection (SpecBall) *)

\* the places of the ball-class detections among dets
BallsIn(dets) == {j \in 1..Len(dets) : dets[j].cls = "Ball"}

\* j is a ball of maximal confidence and the earliest such
IsBest(dets, j) ==
    /\ j \in BallsIn(dets)
    /\ \A k \in BallsIn(dets) :
          \/ dets[k].conf < dets[j].conf
          \/ dets[k].conf = dets[j].conf /\ j <= k

C8_Rule(dets, entry) ==
    IF BallsIn(dets) = {} THEN entry = << >>
    ELSE /\ DOMAIN entry = {1}
         /\ \E j \in BallsIn(dets) :
               /\ IsBest(dets, j)
               /\ entry[1] = [bbox |-> dets[j].bbox]

-----------------------------------------------------------------------------
(* Claims about save_stub and read_stub (SpecStub) *)

\* C10: read_stub(True, path) after save_stub(path, X), with no later save to
\* that path, returns X; after several saves it returns the last one saved.
C10_SaveThenReadRoundTrip ==
    (/\ loaded.some
     /\ loaded.val.enabled
     /\ loaded.val.path \in RealPaths
     /\ last_saved[loaded.val.path].some) =>
        /\ loaded.val.result.exc = "none"
        /\ loaded.val.result.value = last_saved[loaded.val.path]

\* what read_stub(rfs, p) has to answer on the store fs
C11_Rule(call, fs) ==
    IF ~call.enabled \/ call.path = NoPath \/ call.path \notin DOMAIN fs
    THEN /\ call.result.value = None
         /\ call.result.exc = "none"
         /\ ~call.result.opened
    ELSE PickleLoad(fs[call.path]).ok =>
            /\ call.result.exc = "none"
            /\ call.result.value = Some(PickleLoad(fs[call.path]).val)

\* C11: read_stub returns None when read_from_stub is false, when stub_path is
\* None and when no file exists at stub_path, without opening a file; when a
\* readable record exists it returns that record whatever its length; and it
\* never changes the store.
C11_ReadStubAbsentOrVerbatim ==
    [][loaded'.some =>
          /\ dirs' = dirs
          /\ files' = files
          /\ C11_Rule(loaded'.val, files)]_vars

\* a record of two frames left by an earlier run is read back
C11_Witness ==
    /\ loaded.some
    /\ loaded.val.enabled
    /\ loaded.val.path = DirPath
    /\ last_saved[DirPath] = None
    /\ loaded.val.result.value = Some(OldRecord(2))

\* C13: after save_stub(path, value) with a path that is set, the directory of
\* the path exists (if the path names one) and the file at the path holds
\* value, whatever was there before and whether or not the directory existed.
C13_SaveCreatesDirAndReplaces ==
    \A p \in RealPaths :
        last_saved[p].some =>
            /\ Dirname(p) = "" \/ Dirname(p) \in dirs
            /\ p \in DOMAIN files
            /\ files[p] = PickleDump(last_saved[p].val)

-----------------------------------------------------------------------------
(* The ball-selection model: one call of BallTracker.get_object_tracks on  *)
(* frames that show several objects                                        *)

RichObjects ==
    {Obj("Ball", 60, BoxA), Obj("Ball", 90, BoxB), Obj("Ball", 90, BoxA),
     Obj("Player", 99, BoxN)}

RichFrames == SeqsUpTo(RichObjects, MaxObjs)

BallCall ==
    /\ pc = "idle"
    /\ \E fr \in SeqsUpTo(RichFrames, MaxBallFrames), rfs \in BOOLEAN :
          Enter("ball", fr, rfs, DirPath)

InitBall == StoreFresh /\ PassIdle /\ RepairIdle /\ TeamIdle

NextBall ==
    \/ BallCall
    \/ ReadCache
    \/ DetectBatch
    \/ DetectReturn
    \/ TrackFrame
    \/ SaveCache

SpecBall == InitBall /\ [][NextBall]_vars

-----------------------------------------------------------------------------
(* The batching model: one call of get_object_tracks, followed up to the   *)
(* return of detect_frames, on frame lists longer than a batch             *)

\* the j-th frame of a long video: a ball the detector scores 50 + j and a
\* player it scores below the floor
LongFrame(j) == <<Obj("Ball", CONF_FLOOR + j, BoxA),
                  Obj("Player", CONF_FLOOR - 1, BoxB)>>

LongFrames(n) == [j \in 1..n |-> LongFrame(j)]

DetectCall ==
    /\ pc = "idle"
    /\ \E k \in {"player", "ball"}, n \in 0..MaxDetectFrames :
          Enter(k, LongFrames(n), FALSE, NoPath)

NextDetect ==
    \/ DetectCall
    \/ ReadCache
    \/ DetectBatch
    \/ DetectReturn

SpecDetect == InitBall /\ [][NextDetect]_vars

-----------------------------------------------------------------------------
(* trackers/ball_tracker.py: remove_wrong_detections *)

maximum_allowed_distance == 25

\* ball_positions[k].get(1, {}).get('bbox', []), as None for the empty list
BoxOf(entry) ==
    IF 1 \in DOMAIN entry /\ "bbox" \in DOMAIN entry[1] /\ Len(entry[1].bbox) > 0
    THEN Some(entry[1].bbox)
    ELSE None

HasBox(entry) == BoxOf(entry).some

\* the square of np.linalg.norm(np.array(a[:2]) - np.array(b[:2]))
NormSq(a, b) == (a[1] - b[1]) * (a[1] - b[1]) + (a[2] - b[2]) * (a[2] - b[2])

TooFar_Unscaled(last_good_box, current_box, frame_gap) ==
    NormSq(last_good_box, current_box)
        > maximum_allowed_distance * maximum_allowed_distance

TooFar_GapPlusOne(last_good_box, current_box, frame_gap) ==
    LET adjusted_max_distance == maximum_allowed_distance * (frame_gap + 1)
    IN  NormSq(last_good_box, current_box)
            > adjusted_max_distance * adjusted_max_distance

\* norm(last_good_box[:2] - current_box[:2]) > maximum_allowed_distance * frame_gap.
\* Both sides are non-negative, so the squares compare alike; on integer
\* corners the squares and the rounded root are exact.
TooFar(last_good_box, current_box, frame_gap) ==
    LET adjusted_max_distance == maximum_allowed_distance * frame_gap
    IN  NormSq(last_good_box, current_box)
            > adjusted_max_distance * adjusted_max_distance

\* the spec's example: the ball rests at (0,0) in frames 0 and 1 and is seen
\* at (1000,1000) gap frames after frame 1
JumpExample(gap) ==
    [k \in 1..(2 + gap) |->
        IF k <= 2 THEN (1 :> [bbox |-> BoxA])
        ELSE IF k = 2 + gap THEN (1 :> [bbox |-> BoxJ])
        ELSE << >>]

BallEntries == {<< >>} \cup {(1 :> [bbox |-> b]) : b \in {BoxA, BoxB, BoxN}}

BallSequences == SeqsUpTo(BallEntries, MaxLen) \cup {JumpExample(g) : g \in {1, 40, 60}}

RepairEnter(positions) ==
    /\ rpc = "idle"
    /\ ball_positions' = positions
    /\ positions0' = positions
    /\ applied' = 1
    /\ i' = 0
    /\ last_good_frame_index' = -1
    /\ df_ball_positions' = << >>

\* remove_wrong_detections(ball_positions) begins
RemoveCall ==
    /\ \E positions \in BallSequences : RepairEnter(positions)
    /\ rpc' = "loop"
    /\ UNCHANGED <<passVars, storeVars, teamVars>>

\* the current frame of the loop (Python counts i from 0)
CurrentBox == BoxOf(ball_positions[i + 1])

\* if len(current_box) == 0: continue
RemoveSkip ==
    /\ rpc = "loop"
    /\ i < Len(ball_positions)
    /\ ~CurrentBox.some
    /\ i' = i + 1
    /\ UNCHANGED <<rpc, ball_positions, last_good_frame_index, df_ball_positions,
                   positions0, applied, passVars, storeVars, teamVars>>

\* if last_good_frame_index == -1: last_good_frame_index = i; continue
RemoveFirst ==
    /\ rpc = "loop"
    /\ i < Len(ball_positions)
    /\ CurrentBox.some
    /\ last_good_frame_index = -1
    /\ last_good_frame_index' = i
    /\ i' = i + 1
    /\ UNCHANGED <<rpc, ball_positions, df_ball_positions, positions0,
                   applied, passVars,
                   storeVars, teamVars>>

RemoveCompare_Overwrites ==
    /\ rpc = "loop"
    /\ i < Len(ball_positions)
    /\ CurrentBox.some
    /\ last_good_frame_index # -1
    /\ LET last_good_box == BoxOf(ball_positions[last_good_frame_index + 1]).val
           frame_gap == i - last_good_frame_index
       IN  IF TooFar(last_good_box, CurrentBox.val, frame_gap)
           THEN /\ ball_positions' = [ball_positions EXCEPT
                                        ![i + 1] = (1 :> [bbox |-> last_good_box])]
                /\ last_good_frame_index' = last_good_frame_index
           ELSE /\ ball_positions' = ball_positions
                /\ last_good_frame_index' = i
    /\ i' = i + 1
    /\ UNCHANGED <<rpc, df_ball_positions, positions0, applied, passVars,
                   storeVars, teamVars>>

RemoveCompare_GapCountsSeen ==
    /\ rpc = "loop"
    /\ i < Len(ball_positions)
    /\ CurrentBox.some
    /\ last_good_frame_index # -1
    /\ LET last_good_box == BoxOf(ball_positions[last_good_frame_index + 1]).val
           frame_gap == Cardinality({k \in (last_good_frame_index + 2)..(i + 1) :
                                       HasBox(positions0[k])})
       IN  IF TooFar(last_good_box, CurrentBox.val, frame_gap)
           THEN /\ ball_positions' = [ball_positions EXCEPT ![i + 1] = << >>]
                /\ last_good_frame_index' = last_good_frame_index
           ELSE /\ ball_positions' = ball_positions
                /\ last_good_frame_index' = i
    /\ i' = i + 1
    /\ UNCHANGED <<rpc, df_ball_positions, positions0, applied, passVars,
                   storeVars, teamVars>>

\* the comparison with the last good frame: discard, or keep as the reference
RemoveCompare ==
    /\ rpc = "loop"
    /\ i < Len(ball_positions)
    /\ CurrentBox.some
    /\ last_good_frame_index # -1
    /\ LET last_good_box == BoxOf(ball_positions[last_good_frame_index + 1]).val
           frame_gap == i - last_good_frame_index
       IN  IF TooFar(last_good_box, CurrentBox.val, frame_gap)
           THEN /\ ball_positions' = [ball_positions EXCEPT ![i + 1] = << >>]
                /\ last_good_frame_index' = last_good_frame_index
           ELSE /\ ball_positions' = ball_positions
                /\ last_good_frame_index' = i
    /\ i' = i + 1
    /\ UNCHANGED <<rpc, df_ball_positions, positions0, applied, passVars,
                   storeVars, teamVars>>

\* return ball_positions
RemoveReturn ==
    /\ rpc = "loop"
    /\ i >= Len(ball_positions)
    /\ rpc' = "removed"
    /\ UNCHANGED <<ball_positions, i, last_good_frame_index, df_ball_positions,
                   positions0, applied, passVars, storeVars, teamVars>>

NextRemove ==
    \/ RemoveCall
    \/ RemoveSkip
    \/ RemoveFirst
    \/ RemoveCompare
    \/ RemoveReturn

InitRepair == StoreFresh /\ PassIdle /\ RepairIdle /\ TeamIdle

SpecRemove == InitRepair /\ [][NextRemove]_vars

\* remove_wrong_detections is called again, on the list it has just returned
RemoveAgain ==
    /\ rpc = "removed"
    /\ applied = 1
    /\ rpc' = "loop"
    /\ positions0' = ball_positions
    /\ i' = 0
    /\ last_good_frame_index' = -1
    /\ applied' = 2
    /\ UNCHANGED <<ball_positions, df_ball_positions, passVars, storeVars,
                   teamVars>>

NextRemoveTwice ==
    \/ RemoveCall
    \/ RemoveSkip
    \/ RemoveFirst
    \/ RemoveCompare
    \/ RemoveReturn
    \/ RemoveAgain

SpecRemoveTwice == InitRepair /\ [][NextRemoveTwice]_vars

-----------------------------------------------------------------------------
(* trackers/ball_tracker.py: interpolate_ball_positions.  A DataFrame is a  *)
(* sequence of rows of four cells; a cell is a fraction <<n, d>> with d > 0 *)
(* in lowest terms, or NaN.                                                *)

NaN == <<0, 0>>

Abs(x) == IF x < 0 THEN -x ELSE x

RECURSIVE Gcd(_, _)
Gcd(a, b) == IF b = 0 THEN a ELSE Gcd(b, a % b)

\* the number n/d, d > 0
Frac(n, d) == LET g == Gcd(Abs(n), d) IN <<n \div g, d \div g>>

\* a coordinate of a box, as the float64 cell of the DataFrame
Cell(c) == <<c, 1>>

\* [x.get(1, {}).get('bbox', []) for x in ball_positions], line 178
ExtractBoxes(positions) == [k \in 1..Len(positions) |-> BoxOf(positions[k])]

\* pd.DataFrame(rows, columns=['x1','y1','x2','y2']), line 181: a short row is
\* padded with NaN, but when there are rows and not one of them has a cell the
\* data has 0 columns for the 4 names and the constructor raises ValueError
DataFrame(rows) ==
    IF Len(rows) > 0 /\ \A k \in 1..Len(rows) : ~rows[k].some
    THEN [ok |-> FALSE, df |-> << >>]
    ELSE [ok |-> TRUE,
          df |-> [k \in 1..Len(rows) |->
                    IF rows[k].some
                    THEN [c \in 1..4 |-> Cell(rows[k].val[c])]
                    ELSE [c \in 1..4 |-> NaN]]]

\* the nearest row before / after row k whose cell in the series is valid, 0 if none
PrevValid(s, k) ==
    LET V == {j \in 1..(k - 1) : s[j] # NaN} IN IF V = {} THEN 0 ELSE Max(V)
NextValid(s, k) ==
    LET V == {j \in (k + 1)..Len(s) : s[j] # NaN} IN IF V = {} THEN 0 ELSE Min(V)

\* the point at row k of the line through (a, ya) and (b, yb)
Linear(ya, yb, a, b, k) ==
    Frac(ya[1] * yb[2] * (b - a) + (yb[1] * ya[2] - ya[1] * yb[2]) * (k - a),
         ya[2] * yb[2] * (b - a))

InterpolateSeries_Pad(s) ==
    [k \in 1..Len(s) |->
        IF s[k] # NaN THEN s[k]
        ELSE IF PrevValid(s, k) = 0 THEN NaN ELSE s[PrevValid(s, k)]]

InterpolateSeries_Inside(s) ==
    [k \in 1..Len(s) |->
        IF s[k] # NaN THEN s[k]
        ELSE LET a == PrevValid(s, k)
                 b == NextValid(s, k)
             IN  IF a = 0 \/ b = 0 THEN NaN ELSE Linear(s[a], s[b], a, b, k)]

InterpolateSeries_Extrapolate(s) ==
    [k \in 1..Len(s) |->
        IF s[k] # NaN THEN s[k]
        ELSE LET a == PrevValid(s, k)
                 b == NextValid(s, k)
             IN  IF a = 0 THEN NaN
                 ELSE IF b = 0
                 THEN IF PrevValid(s, a) = 0 THEN s[a]
                      ELSE Linear(s[PrevValid(s, a)], s[a], PrevValid(s, a), a, k)
                 ELSE Linear(s[a], s[b], a, b, k)]

InterpolateSeries_Smooths(s) ==
    [k \in 1..Len(s) |->
        LET a == PrevValid(s, k)
            b == NextValid(s, k)
        IN  IF a = 0 THEN s[k]
            ELSE IF b = 0 THEN s[a]
            ELSE Linear(s[a], s[b], a, b, k)]

\* Series.interpolate() with its defaults (method='linear', limit_direction=
\* 'forward'): rows count as equally spaced; a NaN between two valid cells
\* is put on the line through them, a NaN after the last valid cell repeats
\* it, a NaN before the first valid cell stays
InterpolateSeries(s) ==
    [k \in 1..Len(s) |->
        IF s[k] # NaN THEN s[k]
        ELSE LET a == PrevValid(s, k)
                 b == NextValid(s, k)
             IN  IF a = 0 THEN NaN
                 ELSE IF b = 0 THEN s[a]
                 ELSE Linear(s[a], s[b], a, b, k)]

BfillSeries_Ffill(s) ==
    [k \in 1..Len(s) |->
        IF s[k] # NaN THEN s[k]
        ELSE IF PrevValid(s, k) = 0 THEN NaN ELSE s[PrevValid(s, k)]]

\* Series.bfill(): a NaN takes the next valid cell, if there is one
BfillSeries(s) ==
    [k \in 1..Len(s) |->
        IF s[k] # NaN THEN s[k]
        ELSE IF NextValid(s, k) = 0 THEN NaN ELSE s[NextValid(s, k)]]

Column(df, c) == [k \in 1..Len(df) |-> df[k][c]]

\* DataFrame.interpolate(), column by column
DfInterpolate(df) ==
    [k \in 1..Len(df) |-> [c \in 1..4 |-> InterpolateSeries(Column(df, c))[k]]]

\* DataFrame.bfill(), column by column
DfBfill(df) ==
    [k \in 1..Len(df) |-> [c \in 1..4 |-> BfillSeries(Column(df, c))[k]]]

\* [{1: {"bbox": x}} for x in df.to_numpy().tolist()], line 189
Rebuild(df) == [k \in 1..Len(df) |-> (1 :> [bbox |-> df[k]])]

\* interpolate_ball_positions(ball_positions) begins
InterpolateCall ==
    /\ \E positions \in SeqsUpTo(BallEntries, MaxLen) : RepairEnter(positions)
    /\ rpc' = "extract"
    /\ UNCHANGED <<passVars, storeVars, teamVars>>

\* lines 178 and 181
MakeDataFrame ==
    /\ rpc = "extract"
    /\ LET r == DataFrame(ExtractBoxes(ball_positions))
       IN  IF r.ok
           THEN /\ rpc' = "frame"
                /\ df_ball_positions' = r.df
           ELSE /\ rpc' = "raised"
                /\ df_ball_positions' = df_ball_positions
    /\ UNCHANGED <<ball_positions, i, last_good_frame_index, positions0,
                   applied, passVars,
                   storeVars, teamVars>>

\* line 184
InterpolateFrame ==
    /\ rpc = "frame"
    /\ rpc' = "interpolated"
    /\ df_ball_positions' = DfInterpolate(df_ball_positions)
    /\ UNCHANGED <<ball_positions, i, last_good_frame_index, positions0,
                   applied, passVars,
                   storeVars, teamVars>>

\* line 186
BfillFrame ==
    /\ rpc = "interpolated"
    /\ rpc' = "filled"
    /\ df_ball_positions' = DfBfill(df_ball_positions)
    /\ UNCHANGED <<ball_positions, i, last_good_frame_index, positions0,
                   applied, passVars,
                   storeVars, teamVars>>

\* lines 189-190
InterpolateReturn ==
    /\ rpc = "filled"
    /\ rpc' = "returned"
    /\ ball_positions' = Rebuild(df_ball_positions)
    /\ UNCHANGED <<i, last_good_frame_index, df_ball_positions, positions0,
                   applied, passVars,
                   storeVars, teamVars>>

NextInterpolate ==
    \/ InterpolateCall
    \/ MakeDataFrame
    \/ InterpolateFrame
    \/ BfillFrame
    \/ InterpolateReturn

SpecInterpolate == InitRepair /\ [][NextInterpolate]_vars

\* interpolate_ball_positions is called again, on the list it has just
\* returned
InterpolateAgain ==
    /\ rpc = "returned"
    /\ applied = 1
    /\ rpc' = "extract again"
    /\ positions0' = ball_positions
    /\ applied' = 2
    /\ UNCHANGED <<ball_positions, i, last_good_frame_index, df_ball_positions,
                   passVars, storeVars, teamVars>>

\* lines 178 and 181 on a list whose boxes hold the floats of a DataFrame:
\* the cells are taken as they are
MakeDataFrameAgain ==
    /\ rpc = "extract again"
    /\ LET rows == ExtractBoxes(ball_positions)
       IN  IF Len(rows) > 0 /\ \A k \in 1..Len(rows) : ~rows[k].some
           THEN /\ rpc' = "raised"
                /\ df_ball_positions' = df_ball_positions
           ELSE /\ rpc' = "frame"
                /\ df_ball_positions' =
                      [k \in 1..Len(rows) |->
                          IF rows[k].some THEN rows[k].val
                          ELSE [c \in 1..4 |-> NaN]]
    /\ UNCHANGED <<ball_positions, i, last_good_frame_index, positions0, applied,
                   passVars, storeVars, teamVars>>

NextInterpolateTwice ==
    \/ InterpolateCall
    \/ MakeDataFrame
    \/ InterpolateFrame
    \/ BfillFrame
    \/ InterpolateReturn
    \/ InterpolateAgain
    \/ MakeDataFrameAgain

SpecInterpolateTwice == InitRepair /\ [][NextInterpolateTwice]_vars

-----------------------------------------------------------------------------
(* team_assigner/team_assigner.py.  In a team assignment the label n of a   *)
(* player is the record [team |-> n].                                      *)

team_1_class_name == "white shirt"
team_2_class_name == "dark blue shirt"

\* the 50 of "if frame_num % 50 == 0"
memo_window == 50

get_player_team_NoMemo(dict, player_id, player_color) ==
    LET team_id == IF player_color = team_1_class_name THEN 1 ELSE 2
    IN  [team |-> team_id, dict |-> (player_id :> team_id) @@ dict,
         called |-> TRUE]

\* get_player_team(frame, player_bbox, player_id), player_color being what
\* get_player_color answers if it is asked: the label returned, the memo after
\* the call, and whether the classifier was asked
get_player_team(dict, player_id, player_color) ==
    IF player_id \in DOMAIN dict
    THEN [team |-> dict[player_id], dict |-> dict, called |-> FALSE]
    ELSE LET team_id == IF player_color = team_1_class_name THEN 1 ELSE 2
         IN  [team |-> team_id, dict |-> (player_id :> team_id) @@ dict,
              called |-> TRUE]

MemoReset_FirstFrameOnly(fn) == fn = 0

MemoReset_NeverAtZero(fn) == fn % memo_window = 0 /\ fn > 0

\* if frame_num % 50 == 0: self.player_team_dict = {}
MemoReset(fn) == fn % memo_window = 0

\* for player_id, track in player_track.items(): lines 171-176, st being
\* (the memo, this frame's assignment, the frames in which the classifier was
\* asked about each identity so far)
RECURSIVE PlayersLoop(_, _, _, _)
PlayersLoop(fn, ids, colors, st) ==
    IF ids = {} THEN st
    ELSE LET player_id == Min(ids)
             r == get_player_team(st.dict, player_id, colors[player_id])
         IN  PlayersLoop(fn, ids \ {player_id}, colors,
                 [dict  |-> r.dict,
                  entry |-> (player_id :> [team |-> r.team]) @@ st.entry,
                  calls |-> IF r.called
                            THEN [st.calls EXCEPT ![player_id] = @ \cup {fn}]
                            ELSE st.calls])

\* the frames (counted from 0) in which player 1 may come and go
KeyFrames == {0, memo_window - 1, memo_window, memo_window + 1}

\* player_tracks of n frames: player 1 is tracked in the frames of S1,
\* player 2 in every frame if a2
TeamTracks(n, S1, a2) ==
    [f \in 1..n |->
        [id \in (IF (f - 1) \in S1 THEN {1} ELSE {}) \cup (IF a2 THEN {2} ELSE {})
            |-> [bbox |-> BoxA]]]

TeamLengths == {0, 1, memo_window, memo_window + 1, MaxTeamFrames}

\* the memos an earlier call may have left in the TeamAssigner
Memos == UNION {[S -> {1, 2}] : S \in SUBSET TrackIds}

\* get_player_teams_across_frames(video_frames, player_tracks, rfs, p) begins
TeamCall ==
    /\ tpc = "idle"
    /\ \E n \in TeamLengths, S1 \in SUBSET KeyFrames, a2 \in BOOLEAN,
          rfs \in BOOLEAN :
          /\ player_tracks' = TeamTracks(n, S1, a2)
          /\ video_frames' = n
          /\ team_read_from_stub' = rfs
    /\ team_stub_path' = DirPath
    /\ tpc' = "read"
    /\ frame_num' = 0
    /\ player_assignment' = << >>
    /\ team_ret' = None
    /\ team_exc' = "none"
    /\ classifier_calls' = [id \in TrackIds |-> {}]
    /\ team_files0' = files
    /\ team_query' = team_query
    /\ team_cache_reads' = 0
    /\ team_save_calls' = 0
    /\ team_cache_writes' = 0
    /\ UNCHANGED <<player_team_dict, passVars, storeVars, repairVars>>

\* lines 152-160
TeamReadCache ==
    /\ tpc = "read"
    /\ LET r == read_stub(files, team_read_from_stub, team_stub_path)
       IN  IF r.exc # "none"
           THEN /\ tpc' = "raised"
                /\ team_exc' = r.exc
                /\ team_ret' = team_ret
           ELSE IF r.value.some /\ Len(r.value.val) = video_frames
           THEN /\ tpc' = "done"
                /\ team_ret' = r.value
                /\ team_exc' = team_exc
           ELSE /\ tpc' = "loop"
                /\ team_ret' = team_ret
                /\ team_exc' = team_exc
    /\ player_assignment' = << >>
    /\ team_cache_reads' = team_cache_reads + 1
    /\ UNCHANGED <<player_team_dict, video_frames, player_tracks,
                   team_read_from_stub, team_stub_path, frame_num,
                   classifier_calls, team_files0, team_query,
                   team_cache_writes, team_save_calls,
                   passVars, storeVars, repairVars>>

\* one turn of "for frame_num, player_track in enumerate(player_tracks)"
TeamFrame ==
    /\ tpc = "loop"
    /\ frame_num < Len(player_tracks)
    /\ LET player_track == player_tracks[frame_num + 1]
           memo == IF MemoReset(frame_num) THEN << >> ELSE player_team_dict
       IN  IF DOMAIN player_track # {} /\ frame_num >= video_frames
           THEN \* video_frames[frame_num]
                /\ tpc' = "raised"
                /\ team_exc' = "IndexError"
                /\ player_team_dict' = memo
                /\ player_assignment' = Append(player_assignment, << >>)
                /\ UNCHANGED <<frame_num, classifier_calls>>
           ELSE \E colors \in [DOMAIN player_track ->
                                  {team_1_class_name, team_2_class_name}] :
                   LET st == PlayersLoop(frame_num, DOMAIN player_track, colors,
                                 [dict |-> memo, entry |-> << >>,
                                  calls |-> classifier_calls])
                   IN  /\ player_team_dict' = st.dict
                       /\ player_assignment' = Append(player_assignment, st.entry)
                       /\ classifier_calls' = st.calls
                       /\ frame_num' = frame_num + 1
                       /\ UNCHANGED <<tpc, team_exc>>
    /\ UNCHANGED <<video_frames, player_tracks, team_read_from_stub,
                   team_stub_path, team_ret, team_files0, team_query,
                   team_cache_reads,
                   team_save_calls,
                   team_cache_writes, passVars, repairVars, storeVars>>

\* lines 179-181
TeamSaveCache ==
    /\ tpc = "loop"
    /\ frame_num >= Len(player_tracks)
    /\ team_save_calls' = team_save_calls + 1
    /\ LET s == save_stub(dirs, files, team_stub_path, player_assignment)
       IN  /\ dirs' = s.dirs
           /\ files' = s.files
           /\ IF s.exc # "none"
              THEN /\ tpc' = "raised"
                   /\ team_exc' = s.exc
                   /\ team_ret' = team_ret
                   /\ team_cache_writes' = team_cache_writes
              ELSE /\ tpc' = "done"
                   /\ team_exc' = team_exc
                   /\ team_ret' = Some(player_assignment)
                   /\ team_cache_writes' = team_cache_writes + 1
    /\ UNCHANGED <<player_team_dict, video_frames, player_tracks,
                   team_read_from_stub, team_stub_path, frame_num,
                   player_assignment, classifier_calls, team_files0, team_query,
                   team_cache_reads, last_saved, loaded, passVars, repairVars>>

\* a TeamAssigner that may hold the memo of an earlier call
InitTeam ==
    /\ StoreFresh
    /\ PassIdle
    /\ RepairIdle
    /\ tpc = "idle"
    /\ player_team_dict \in Memos
    /\ video_frames = 0
    /\ player_tracks = << >>
    /\ team_read_from_stub = FALSE
    /\ team_stub_path = NoPath
    /\ frame_num = 0
    /\ player_assignment = << >>
    /\ team_ret = None
    /\ team_exc = "none"
    /\ classifier_calls = [id \in TrackIds |-> {}]
    /\ team_files0 = << >>
    /\ team_query = None
    /\ team_cache_reads = 0
    /\ team_save_calls = 0
    /\ team_cache_writes = 0

NextTeam ==
    \/ TeamCall
    \/ TeamReadCache
    \/ TeamFrame
    \/ TeamSaveCache

SpecTeam == InitTeam /\ [][NextTeam]_vars

-----------------------------------------------------------------------------
(* The memo model: direct calls of get_player_team on a TeamAssigner whose  *)
(* memo holds anything                                                     *)

\* get_player_team(frame, player_bbox, player_id) is called; player_color is
\* what get_player_color answers on that frame and box
GetPlayerTeamCall ==
    /\ \E player_id \in 1..MaxMemoIds,
          player_color \in {team_1_class_name, team_2_class_name} :
          LET r == get_player_team(player_team_dict, player_id, player_color)
          IN  /\ player_team_dict' = r.dict
              /\ team_query' = Some([player_id |-> player_id,
                                     player_color |-> player_color,
                                     before |-> player_team_dict,
                                     after |-> r.dict,
                                     returned |-> r.team,
                                     called |-> r.called])
    /\ UNCHANGED <<tpc, video_frames, player_tracks, team_read_from_stub,
                   team_stub_path, frame_num, player_assignment, team_ret,
                   team_exc, classifier_calls, team_files0, team_cache_reads,
                   team_save_calls, team_cache_writes>>
    /\ UNCHANGED <<passVars, storeVars, repairVars>>

\* self.player_team_dict = {}, as line 168 does between calls
MemoClear ==
    /\ player_team_dict # << >>
    /\ player_team_dict' = << >>
    /\ UNCHANGED <<tpc, video_frames, player_tracks, team_read_from_stub,
                   team_stub_path, frame_num, player_assignment, team_ret,
                   team_exc, classifier_calls, team_files0, team_query,
                   team_cache_reads, team_save_calls, team_cache_writes>>
    /\ UNCHANGED <<passVars, storeVars, repairVars>>

NextMemo ==
    \/ GetPlayerTeamCall
    \/ MemoClear

\* a TeamAssigner whose memo holds labels for any of the identities
InitMemo ==
    /\ StoreFresh
    /\ PassIdle
    /\ RepairIdle
    /\ tpc = "idle"
    /\ player_team_dict \in UNION {[S -> {1, 2}] : S \in SUBSET (1..MaxMemoIds)}
    /\ video_frames = 0
    /\ player_tracks = << >>
    /\ team_read_from_stub = FALSE
    /\ team_stub_path = NoPath
    /\ frame_num = 0
    /\ player_assignment = << >>
    /\ team_ret = None
    /\ team_exc = "none"
    /\ classifier_calls = [id \in TrackIds |-> {}]
    /\ team_files0 = << >>
    /\ team_query = None
    /\ team_cache_reads = 0
    /\ team_save_calls = 0
    /\ team_cache_writes = 0

SpecMemo == InitMemo /\ [][NextMemo]_vars

-----------------------------------------------------------------------------
(* The three cache-aware passes with external calls that may fail: one call *)
(* of PlayerTracker.get_object_tracks, BallTracker.get_object_tracks or     *)
(* TeamAssigner.get_player_teams_across_frames on a store that may hold     *)
(* records of earlier runs, readable or not                                 *)

\* longest video_frames and player_tracks of this model
MaxShortFrames == 2

\* model.predict raises
DetectFails ==
    /\ pc = "detect"
    /\ Len(detections) < Len(frames)
    /\ pc' = "raised"
    /\ exc' = "DetectorError"
    /\ predict_calls' = predict_calls + 1
    /\ predict_log' = Append(predict_log,
                          [batch |-> Batch(frames, Len(detections)),
                           conf |-> CONF_FLOOR])
    /\ UNCHANGED <<kind, frames, read_from_stub, stub_path, detections, tracks,
                   ret, files0, tracker_calls, cache_writes, cache_reads,
                   save_calls,
                   tracker_log>>
    /\ UNCHANGED <<storeVars, repairVars, teamVars>>

TrackFails_SavesPartial ==
    /\ pc = "track"
    /\ kind = "player"
    /\ Len(tracks) < Len(detections)
    /\ pc' = "raised"
    /\ exc' = "TrackerError"
    /\ tracker_calls' = tracker_calls + 1
    /\ dirs' = save_stub(dirs, files, stub_path, tracks).dirs
    /\ files' = save_stub(dirs, files, stub_path, tracks).files
    /\ UNCHANGED <<kind, frames, read_from_stub, stub_path, detections, tracks,
                   ret, files0, predict_calls, cache_writes, cache_reads,
                   save_calls, predict_log, tracker_log, last_saved, loaded>>
    /\ UNCHANGED <<repairVars, teamVars>>

\* tracker.update_with_detections raises
TrackFails ==
    /\ pc = "track"
    /\ kind = "player"
    /\ Len(tracks) < Len(detections)
    /\ pc' = "raised"
    /\ exc' = "TrackerError"
    /\ tracker_calls' = tracker_calls + 1
    /\ UNCHANGED <<kind, frames, read_from_stub, stub_path, detections, tracks,
                   ret, files0, predict_calls, cache_writes, cache_reads,
                   save_calls,
                   predict_log, tracker_log>>
    /\ UNCHANGED <<storeVars, repairVars, teamVars>>

\* get_player_color raises in the turn of frame_num, asked about identity bad:
\* the identities before it have been through get_player_team
ClassifierFails ==
    /\ tpc = "loop"
    /\ frame_num < Len(player_tracks)
    /\ frame_num < video_frames
    /\ LET player_track == player_tracks[frame_num + 1]
           memo == IF MemoReset(frame_num) THEN << >> ELSE player_team_dict
       IN  \E bad \in DOMAIN player_track \ DOMAIN memo :
             LET before == {id \in DOMAIN player_track : id < bad}
             IN  \E colors \in [before -> {team_1_class_name, team_2_class_name}] :
                   LET st == PlayersLoop(frame_num, before, colors,
                                 [dict |-> memo, entry |-> << >>,
                                  calls |-> classifier_calls])
                   IN  /\ player_team_dict' = st.dict
                       /\ player_assignment' = Append(player_assignment, st.entry)
                       /\ classifier_calls' =
                              [st.calls EXCEPT ![bad] = @ \cup {frame_num}]
    /\ tpc' = "raised"
    /\ team_exc' = "ClassifierError"
    /\ UNCHANGED <<video_frames, player_tracks, team_read_from_stub,
                   team_stub_path, frame_num, team_ret, team_files0, team_query,
                   team_cache_reads, team_save_calls, team_cache_writes,
                   passVars, repairVars,
                   storeVars>>

\* what one frame of a short player_tracks holds
ShortEntries ==
    {<< >>,
     (1 :> [bbox |-> BoxA]),
     (1 :> [bbox |-> BoxA]) @@ (2 :> [bbox |-> BoxB])}

\* get_player_teams_across_frames(video_frames, player_tracks, rfs, p) begins,
\* the two lists of any lengths
ShortTeamCall ==
    /\ tpc = "idle"
    /\ pc = "idle"
    /\ \E vf \in 0..MaxShortFrames, pt \in SeqsUpTo(ShortEntries, MaxShortFrames),
          rfs \in BOOLEAN, p \in Paths :
          /\ video_frames' = vf
          /\ player_tracks' = pt
          /\ team_read_from_stub' = rfs
          /\ team_stub_path' = p
    /\ tpc' = "read"
    /\ frame_num' = 0
    /\ player_assignment' = << >>
    /\ team_ret' = None
    /\ team_exc' = "none"
    /\ classifier_calls' = [id \in TrackIds |-> {}]
    /\ team_files0' = files
    /\ team_query' = team_query
    /\ team_cache_reads' = 0
    /\ team_save_calls' = 0
    /\ team_cache_writes' = 0
    /\ UNCHANGED <<player_team_dict, passVars, storeVars, repairVars>>

\* get_object_tracks begins, on a tracker of either kind
PassCall ==
    /\ pc = "idle"
    /\ tpc = "idle"
    /\ Call

NextPasses ==
    \/ PassCall
    \/ ReadCache
    \/ DetectBatch
    \/ DetectFails
    \/ DetectReturn
    \/ TrackFrame
    \/ TrackFails
    \/ SaveCache
    \/ ShortTeamCall
    \/ TeamReadCache
    \/ TeamFrame
    \/ ClassifierFails
    \/ TeamSaveCache

SpecPasses == Init /\ [][NextPasses]_vars

-----------------------------------------------------------------------------
(* Claims about remove_wrong_detections (SpecRemove) *)

\* the frames of the input that have a box
Seen == {k \in 1..Len(positions0) : HasBox(positions0[k])}

\* the frames before frame k (counted from 1) whose box is still there
KeptBefore(k) == {j \in 1..(k - 1) : HasBox(ball_positions[j])}

\* the nearest of them, 0 if there is none
LastKeptBefore(k) == IF KeptBefore(k) = {} THEN 0 ELSE Max(KeptBefore(k))

C3_Rule(k) ==
    LET in  == positions0[k]
        out == ball_positions[k]
        j   == LastKeptBefore(k)
    IN  IF ~HasBox(in) THEN out = in
        ELSE IF j = 0 THEN out = in
        ELSE LET dx == in[1].bbox[1] - positions0[j][1].bbox[1]
                 dy == in[1].bbox[2] - positions0[j][1].bbox[2]
                 far == dx * dx + dy * dy > (25 * (k - j)) * (25 * (k - j))
             IN  /\ far => out = << >>
                 /\ ~far => out = in

C22_RemoveOnlyRemoves ==
    rpc \in {"loop", "removed"} =>
        /\ Len(ball_positions) = Len(positions0)
        /\ \A k \in 1..Len(positions0) :
              \/ ball_positions[k] = positions0[k]
              \/ ball_positions[k] = << >>

\* five frames: an empty one, two kept, two discarded
C22_Witness ==
    /\ rpc = "removed"
    /\ Len(positions0) = 5
    /\ positions0[1] = << >>
    /\ \A k \in 2..5 : HasBox(positions0[k])
    /\ {k \in 1..5 : HasBox(ball_positions[k])} = {2, 4}
    /\ \A k \in {2, 4} : ball_positions[k] = positions0[k]

\* the frames whose box is there at this point of the call
Kept == {k \in 1..Len(ball_positions) : HasBox(ball_positions[k])}

C24_RemoveIdempotent ==
    (rpc \in {"loop", "removed"} /\ applied = 2) =>
        ball_positions = positions0

\* the second call has gone through a list from which the first call
\* discarded a frame
C24_Witness ==
    /\ rpc = "removed"
    /\ applied = 2
    /\ Len(positions0) = 5
    /\ Cardinality(Kept) = 3
    /\ \E k \in 2..4 : k \notin Kept /\ k - 1 \in Kept /\ k + 1 \in Kept
    /\ ball_positions = positions0

-----------------------------------------------------------------------------
(* Claims about interpolate_ball_positions (SpecInterpolate) *)

InterpolateRan == rpc \in {"extract", "frame", "interpolated", "filled", "returned", "raised"}

\* frame k of the result holds a box of four numbers
HoldsBox(k) ==
    /\ DOMAIN ball_positions[k] = {1}
    /\ DOMAIN ball_positions[k][1] = {"bbox"}
    /\ Len(ball_positions[k][1].bbox) = 4
    /\ \A c \in 1..4 :
          /\ ball_positions[k][1].bbox[c] # NaN
          /\ ball_positions[k][1].bbox[c][2] > 0

\* C4: for a ball sequence in which at least one frame has a box,
\* interpolate_ball_positions returns a sequence of the same length whose
\* every frame (leading, interior, trailing) holds a box with four defined
\* coordinates.
C4_EveryFrameFilled ==
    (InterpolateRan /\ Seen # {}) =>
        /\ rpc # "raised"
        /\ rpc = "returned" =>
              /\ Len(ball_positions) = Len(positions0)
              /\ \A k \in 1..Len(positions0) : HoldsBox(k)

\* a run with missing frames before, between and after the seen ones
C4_Witness ==
    /\ rpc = "returned"
    /\ Len(positions0) = 5
    /\ Seen = {2, 4}
    /\ \A k \in 1..5 : HoldsBox(k)

\* C5: when every frame of the sequence is empty, interpolate_ball_positions
\* is a no-op: it completes without failure and returns a sequence of the
\* same length in which every frame is still empty.
C5_AllEmptyIsNoOp ==
    (InterpolateRan /\ Seen = {}) =>
        /\ rpc # "raised"
        /\ rpc = "returned" =>
              /\ Len(ball_positions) = Len(positions0)
              /\ \A k \in 1..Len(positions0) : ball_positions[k] = << >>

\* C6: every missing frame k strictly between two seen frames a < b with no
\* seen frame between them gets, coordinate by coordinate, the value
\* c_a + (c_b - c_a) * (k - a) / (b - a); [[0,0,10,10], None, None,
\* [30,30,40,40]] gives [10,10,20,20] and [20,20,30,30] in the middle.
C6_InteriorLinear ==
    rpc = "returned" =>
        /\ \A a, b \in Seen :
              (a < b /\ \A m \in (a + 1)..(b - 1) : m \notin Seen) =>
                  \A k \in (a + 1)..(b - 1), c \in 1..4 :
                      LET ca == positions0[a][1].bbox[c]
                          cb == positions0[b][1].bbox[c]
                          v  == ball_positions[k][1].bbox[c]
                      IN  /\ v[2] > 0
                          /\ v[1] * (b - a) = v[2] * (ca * (b - a) + (cb - ca) * (k - a))
        /\ positions0 = <<(1 :> [bbox |-> BoxA]), << >>, << >>, (1 :> [bbox |-> BoxB])>> =>
              /\ ball_positions[2][1].bbox = <<<<10, 1>>, <<10, 1>>, <<20, 1>>, <<20, 1>>>>
              /\ ball_positions[3][1].bbox = <<<<20, 1>>, <<20, 1>>, <<30, 1>>, <<30, 1>>>>

C6_Witness ==
    /\ rpc = "returned"
    /\ positions0 = <<(1 :> [bbox |-> BoxA]), << >>, << >>, (1 :> [bbox |-> BoxB])>>
    /\ ball_positions[2][1].bbox = <<<<10, 1>>, <<10, 1>>, <<20, 1>>, <<20, 1>>>>
    /\ ball_positions[3][1].bbox = <<<<20, 1>>, <<20, 1>>, <<30, 1>>, <<30, 1>>>>

\* C7: every frame before the first seen frame gets exactly the box of that
\* first seen frame, all four coordinates copied.
C7_LeadingBackfilled ==
    (rpc = "returned" /\ Seen # {}) =>
        \A k \in 1..(Min(Seen) - 1) :
            ball_positions[k][1].bbox =
                [c \in 1..4 |-> <<positions0[Min(Seen)][1].bbox[c], 1>>]

\* two missing frames, then a box, then a different box: a line through the
\* two boxes would put other values in the leading frames
C7_Witness ==
    /\ rpc = "returned"
    /\ Seen # {}
    /\ Min(Seen) = 3
    /\ 4 \in Seen
    /\ positions0[4] # positions0[3]
    /\ ball_positions[1] = ball_positions[3]
    /\ ball_positions[2] = ball_positions[3]

\* C26: every frame after the last seen frame gets exactly the box of that
\* last seen frame: the ball is held where it was last seen, its earlier
\* motion is not continued.
C26_TrailingHeld ==
    (rpc = "returned" /\ applied = 1 /\ Seen # {}) =>
        \A k \in (Max(Seen) + 1)..Len(positions0) :
            ball_positions[k][1].bbox =
                [c \in 1..4 |-> <<positions0[Max(Seen)][1].bbox[c], 1>>]

\* the ball moves from one box to another and is then lost for two frames
C26_Witness ==
    /\ rpc = "returned"
    /\ applied = 1
    /\ Len(positions0) = 5
    /\ Seen = {2, 3}
    /\ positions0[2] # positions0[3]
    /\ ball_positions[4] = ball_positions[3]
    /\ ball_positions[5] = ball_positions[3]

\* C27: interpolate_ball_positions returns a list of the length of its input
\* in which every frame that had a box has the same four coordinates; applied
\* to a list it has returned it returns that list unchanged.
C27_ObservedKept ==
    /\ (rpc = "returned" /\ applied = 1) =>
          /\ Len(ball_positions) = Len(positions0)
          /\ \A k \in Seen :
                ball_positions[k][1].bbox =
                    [c \in 1..4 |-> <<positions0[k][1].bbox[c], 1>>]
    /\ (rpc = "returned" /\ applied = 2) => ball_positions = positions0
    /\ applied = 2 => rpc # "raised"

\* the second call has returned a list of five frames of which the first
\* call filled three
C27_Witness ==
    /\ rpc = "returned"
    /\ applied = 2
    /\ Len(positions0) = 5
    /\ ball_positions = positions0
    /\ ball_positions[1] = ball_positions[2]
    /\ ball_positions[2] # ball_positions[4]
    /\ ball_positions[3][1].bbox[1][2] = 2

-----------------------------------------------------------------------------
(* Claims about the team memo (SpecTeam) *)

\* identity id is tracked in frame fn (counted from 0)
Tracked(id, fn) == id \in DOMAIN player_tracks[fn + 1]

\* the frames the loop has been through in which id is tracked and no earlier
\* frame of the same window [50k, 50k+49] tracks it
FirstAppearances(id) ==
    {fn \in 0..(frame_num - 1) :
        /\ Tracked(id, fn)
        /\ \A g \in 0..(fn - 1) :
              g \div memo_window = fn \div memo_window => ~Tracked(id, g)}

\* C9: in a recomputing call of get_player_teams_across_frames the classifier
\* is asked about an identity exactly in the frames where the identity appears
\* for the first time in its window [50k, 50k+49]: once per window however
\* many frames of the window show it, and again at the first appearance after
\* a frame index divisible by 50.
C9_OneClassificationPerWindow ==
    tpc \in {"loop", "done", "raised"} =>
        \A id \in TrackIds : classifier_calls[id] = FirstAppearances(id)

\* 51 frames, player 1 tracked in frames 49 and 50, player 2 in all of them:
\* player 1 is classified in 49 and again in 50, player 2 in 0 and in 50
C9_Witness ==
    /\ tpc = "done"
    /\ Len(player_tracks) = memo_window + 1
    /\ \A fn \in 0..memo_window : Tracked(2, fn)
    /\ {fn \in 0..memo_window : Tracked(1, fn)} = {memo_window - 1, memo_window}
    /\ classifier_calls = (1 :> {memo_window - 1, memo_window})
                          @@ (2 :> {0, memo_window})

\* the frames of the window of frame fn that the loop has been through
WindowSoFar(fn) ==
    {g \in 0..(Len(player_assignment) - 1) :
        g \div memo_window = fn \div memo_window}

\* C25: in a recomputing call of get_player_teams_across_frames an identity
\* has one label in all the frames of a window [50k, 50k+49] that show it, and
\* the memo holds exactly the identities and labels of the frames of the
\* current window gone through so far: nothing of what an earlier call left
\* in the TeamAssigner survives frame 0.
C25_OneLabelPerWindow ==
    (tpc \in {"loop", "done"} /\ Len(player_assignment) > 0) =>
        /\ \A f \in 0..(Len(player_assignment) - 1) :
              \A g \in WindowSoFar(f) :
                 \A id \in DOMAIN player_assignment[f + 1] :
                    id \in DOMAIN player_assignment[g + 1] =>
                        player_assignment[f + 1][id] = player_assignment[g + 1][id]
        /\ LET last == Len(player_assignment) - 1
           IN  /\ DOMAIN player_team_dict =
                     UNION {DOMAIN player_assignment[g + 1] : g \in WindowSoFar(last)}
               /\ \A g \in WindowSoFar(last) :
                     \A id \in DOMAIN player_assignment[g + 1] :
                        player_assignment[g + 1][id].team = player_team_dict[id]

\* 52 frames with player 2 in all of them: team 1 throughout the first
\* window, team 2 in the second
C25_Witness ==
    /\ tpc = "done"
    /\ Len(player_assignment) = MaxTeamFrames
    /\ \A fn \in 0..(memo_window - 1) :
          /\ 2 \in DOMAIN player_assignment[fn + 1]
          /\ player_assignment[fn + 1][2].team = 1
    /\ \A fn \in memo_window..(MaxTeamFrames - 1) :
          /\ 2 \in DOMAIN player_assignment[fn + 1]
          /\ player_assignment[fn + 1][2].team = 2
    /\ player_team_dict = (2 :> 2)

-----------------------------------------------------------------------------
(* Claims about the passes and their failures (SpecPasses) *)

\* the file at path p of store fs exists and cannot be unpickled
Unreadable(fs, p) == p \in DOMAIN fs /\ ~PickleLoad(fs[p]).ok

\* the call of get_player_teams_across_frames met a record of len(video_frames)
TeamHit ==
    /\ team_read_from_stub
    /\ team_stub_path \in DOMAIN team_files0
    /\ PickleLoad(team_files0[team_stub_path]).ok
    /\ Len(PickleLoad(team_files0[team_stub_path]).val) = video_frames

NoClassifierCall == \A id \in TrackIds : classifier_calls[id] = {}

ExternalErrors == {"DetectorError", "TrackerError"}

C15_State ==
    /\ exc \in ExternalErrors =>
          /\ pc = "raised"
          /\ ret = None
          /\ save_calls = 0
          /\ files = files0
    /\ team_exc = "ClassifierError" =>
          /\ tpc = "raised"
          /\ team_ret = None
          /\ team_save_calls = 0
          /\ files = team_files0

C15_Step ==
    /\ exc \in ExternalErrors =>
          UNCHANGED <<predict_calls, tracker_calls, files, pc>>
    /\ team_exc = "ClassifierError" =>
          UNCHANGED <<classifier_calls, files, tpc>>

\* C15: when a call of the detector, the tracker or the classifier raises
\* during a recomputing pass, the pass ends with that exception, returns
\* nothing, makes no further external call, and the store is exactly as it
\* was when the pass began: save_stub is never reached.
C15_ExternalFailureAborts == []C15_State /\ [][C15_Step]_vars

\* the tracker raises on the second of two frames while a record of an
\* earlier run sits at stub_path
C15_Witness ==
    /\ pc = "raised"
    /\ exc = "TrackerError"
    /\ Len(tracks) = 1
    /\ tracker_calls = 2
    /\ stub_path \in DOMAIN files
    /\ files = files0

\* the call of get_player_teams_across_frames recomputed and met no failing
\* classifier
TeamRecomputed ==
    /\ tpc \in {"done", "raised"}
    /\ ~TeamHit
    /\ team_exc \notin {"UnpicklingError", "ClassifierError"}

\* C18: a recomputing call of get_player_teams_across_frames returns a
\* sequence of len(video_frames) mappings and the file at stub_path then holds
\* that sequence, which a later call accepts as valid.
C18_OneMappingPerVideoFrame ==
    TeamRecomputed =>
        /\ tpc = "done"
        /\ team_ret.some
        /\ Len(team_ret.val) = video_frames
        /\ team_stub_path \in DOMAIN files
        /\ files[team_stub_path] = PickleDump(team_ret.val)

\* the call of get_object_tracks met a record of len(frames)
PassHit ==
    /\ read_from_stub
    /\ stub_path \in DOMAIN files0
    /\ PickleLoad(files0[stub_path]).ok
    /\ Len(PickleLoad(files0[stub_path]).val) = Len(frames)

PassRecomputed ==
    /\ pc \in {"done", "raised"}
    /\ ~PassHit
    /\ exc \notin ExternalErrors \cup {"UnpicklingError"}

C19_Pass ==
    /\ pc = "read" =>
          cache_reads = 0 /\ predict_calls = 0 /\ tracker_calls = 0
    /\ pc \notin {"idle", "read"} => cache_reads = 1
    /\ pc \in {"detect", "track"} => save_calls = 0 /\ cache_writes = 0
    /\ (pc = "done" /\ PassHit) => save_calls = 0 /\ cache_writes = 0
    /\ PassRecomputed => save_calls = 1 /\ cache_writes = 1

C19_Team ==
    /\ tpc = "read" => team_cache_reads = 0 /\ NoClassifierCall
    /\ tpc \notin {"idle", "read"} => team_cache_reads = 1
    /\ tpc = "loop" => team_save_calls = 0 /\ team_cache_writes = 0
    /\ (tpc = "done" /\ TeamHit) => team_save_calls = 0 /\ team_cache_writes = 0
    /\ (TeamRecomputed /\ team_exc # "IndexError") =>
          team_save_calls = 1 /\ team_cache_writes = 1

\* C19: every pass reads the cache once, before any external call; a pass
\* that recomputes writes the cache once, after its last external call; a
\* pass that uses the cached record writes nothing.
C19_ReadOnceWriteOnce == C19_Pass /\ C19_Team

-----------------------------------------------------------------------------
(* Claims about detect_frames (SpecDetect) *)

\* the frames handed to the detector so far, batch after batch
RECURSIVE Handed(_)
Handed(log) ==
    IF log = << >> THEN << >> ELSE Head(log).batch \o Handed(Tail(log))

\* what one call of the detector on the whole list answers
Unbatched(fr) == [j \in 1..Len(fr) |-> PredictFrame(fr[j])]

\* C16: detect_frames on N frames calls the detector ceil(N/20) times, with
\* confidence floor 0.5, on batches of at most 20 frames that follow one
\* another without gap or overlap and cover the N frames in order; it returns
\* N detection sets, the i-th the detector's answer for frame i, the list one
\* call on all the frames would give.
C16_BatchingIsRechunking ==
    pc \in {"detect", "track"} =>
        /\ Len(predict_log) = predict_calls
        /\ \A b \in 1..Len(predict_log) :
              /\ Len(predict_log[b].batch) \in 1..20
              /\ predict_log[b].conf = 50
              /\ b < Len(predict_log) => Len(predict_log[b].batch) = 20
        /\ Handed(predict_log) = SubSeq(frames, 1, Len(detections))
        /\ detections = SubSeq(Unbatched(frames), 1, Len(detections))
        /\ pc = "track" =>
              /\ predict_calls = (Len(frames) + 19) \div 20
              /\ Len(detections) = Len(frames)

\* 41 frames: three calls, the last on a single frame
C16_Witness ==
    /\ pc = "track"
    /\ Len(frames) = 41
    /\ predict_calls = 3
    /\ Len(predict_log[3].batch) = 1
    /\ detections[41] = <<Obj("Ball", 91, BoxA)>>

-----------------------------------------------------------------------------
(* Claims about the tracking loop of PlayerTracker.get_object_tracks (Spec) *)

\* C17: a recomputing call of PlayerTracker.get_object_tracks on N frames
\* calls the tracker N times, the i-th call with the detections of frame i,
\* in the order of the frames, and not before detect_frames has returned the
\* detections of all the frames; a call that uses the cached record never
\* calls the tracker.
C17_TrackerOncePerFrameInOrder ==
    (kind = "player" /\ pc # "idle") =>
        /\ tracker_calls = Len(tracker_log)
        /\ \A k \in 1..Len(tracker_log) :
              tracker_log[k].dets = PredictFrame(frames[k])
        /\ tracker_calls > 0 =>
              /\ pc \in {"track", "done", "raised"}
              /\ Len(detections) = Len(frames)
        /\ pc = "track" => tracker_calls = Len(tracks)
        /\ PassHit => tracker_calls = 0
        /\ PassRecomputed => tracker_calls = Len(frames)

\* two frames, the second showing nothing: two tracker calls
C17_Witness ==
    /\ kind = "player"
    /\ pc = "done"
    /\ ~PassHit
    /\ Len(frames) = 2
    /\ frames[2] = << >>
    /\ tracker_calls = 2
    /\ tracker_log[1].dets = <<Obj("Ball", 90, BoxA), Obj("Player", 90, BoxB)>>
    /\ tracker_log[2].dets = << >>

\* the places of the tracker's answer t that hold a player
PlayersOf(dets, t) == {j \in DOMAIN t : dets[j].cls = "Player"}

\* C20: in a recomputing call of PlayerTracker.get_object_tracks the entry of
\* frame i holds exactly the identities the tracker gave to detections of
\* class Player in frame i, each with the box of its detection; detections
\* of other classes are left out, and a frame without a tracked player gets
\* an empty entry, the call going on.
C20_OnlyPlayersKept ==
    (kind = "player" /\ pc \in {"track", "done", "raised"}) =>
        /\ \A f \in 1..Len(tracks) :
              LET dets == tracker_log[f].dets
                  t == tracker_log[f].out
              IN  /\ DOMAIN tracks[f] = {t[j] : j \in PlayersOf(dets, t)}
                  /\ \A j \in PlayersOf(dets, t) :
                        tracks[f][t[j]] = [bbox |-> dets[j].bbox]
        /\ (PassRecomputed /\ pc = "done") =>
              /\ Len(tracks) = Len(frames)
              /\ ret = Some(tracks)

\* ball and player both tracked in frame 0, the player alone is kept; only
\* the ball is tracked in frame 1, whose entry is empty
C20_Witness ==
    /\ kind = "player"
    /\ pc = "done"
    /\ Len(tracker_log) = 2
    /\ tracker_log[1].out = (1 :> 1) @@ (2 :> 2)
    /\ tracker_log[2].out = (1 :> 1)
    /\ ret = Some(<<(2 :> [bbox |-> BoxB]), << >>>>)

-----------------------------------------------------------------------------
(* Claims about two calls in a row (SpecTwoRuns) *)

\* the second call has begun
SecondRun == \E p \in RealPaths : last_saved[p].some

\* C28: after a call of get_object_tracks (players or ball) that recomputed
\* and saved at stub_path P, a second call with as many frames,
\* read_from_stub=True and the same P reads the record once, asks neither the
\* detector nor the tracker, does not save, leaves the store as it was and
\* returns a value equal to what the first call returned.
C28_SecondRunReplays ==
    SecondRun =>
        /\ pc \in {"read", "done"}
        /\ predict_calls = 0
        /\ tracker_calls = 0
        /\ save_calls = 0
        /\ cache_writes = 0
        /\ files = files0
        /\ pc = "done" => /\ cache_reads = 1
                          /\ ret = last_saved[stub_path]

\* the second call has returned two frames of players, the two entries
\* different
C28_Witness ==
    /\ SecondRun
    /\ pc = "done"
    /\ kind = "player"
    /\ Len(frames) = 2
    /\ ret.some
    /\ Len(ret.val) = 2
    /\ ret.val[1] # ret.val[2]
    /\ ret = last_saved[stub_path]

-----------------------------------------------------------------------------
(* Claims about get_player_team (SpecMemo) *)

\* C21: get_player_team returns 1 or 2.  For an identity missing from the memo
\* it asks the classifier, returns 1 exactly when the answer is the team-1
\* description and 2 otherwise, and stores the label under the identity; for
\* an identity in the memo it returns the stored label, the classifier not
\* asked and the memo unchanged.
C21_TeamLabelAndMemo ==
    team_query.some =>
        LET q == team_query.val
        IN  /\ q.returned \in {1, 2}
            /\ q.player_id \in DOMAIN q.before =>
                  /\ q.returned = q.before[q.player_id]
                  /\ ~q.called
                  /\ q.after = q.before
            /\ q.player_id \notin DOMAIN q.before =>
                  /\ q.called
                  /\ q.returned = 1 <=> q.player_color = team_1_class_name
                  /\ q.after = (q.player_id :> q.returned) @@ q.before

\* identity 1 is memoized as team 2 and shown in a white shirt: 2 is returned
C21_Witness ==
    /\ team_query.some
    /\ team_query.val.player_id = 1
    /\ team_query.val.before = (1 :> 2)
    /\ team_query.val.player_color = team_1_class_name
    /\ team_query.val.returned = 2
    /\ ~team_query.val.called

=============================================================================
